---- MODULE Spec2Model ----
(***************************************************************************)
(* Model of vspyplugin/base.py: PyPluginOptions.norm_clip, the validation  *)
(* and flag broadcast of PyPlugin.__init__, the strategy selection of      *)
(* PyPlugin.invoke and the per-frame body of each of its six closures.     *)
(*                                                                         *)
(* Python values are represented as follows.                               *)
(*   - bool | Literal[16, 32] (float_processing): 0 is False, 1 is True    *)
(*     (bool is a subclass of int in Python), 16 and 32 are themselves.    *)
(*   - bool | list[bool] (input_per_plane): [is_list, val]; a bare bool b   *)
(*     is [is_list |-> FALSE, val |-> <<b>>].                              *)
(*   - a clip: [format, shift]; shift[p+1] is the offset, in units of 0.5,  *)
(*     that the clip's filter chain adds to plane p.                       *)
(*   - stream and plane indices are 0-based as in the source; position     *)
(*     idx + 1 of a TLA+ sequence holds the element of Python index idx.   *)
(***************************************************************************)
EXTENDS Integers, Sequences, FiniteSets, TLC

\* Bounds of the model.
MaxAux == 1        \* at most this many auxiliary clips are passed
MaxDecl == 2       \* longest input_per_plane list a plugin class declares
MaxFrames == 2     \* frame indices 0 .. MaxFrames-1 are requested

\* plane argument of process() when the output is not per-plane
None == -1

VARIABLES
    options,            \* PyPlugin.options: [float_processing, shift_chroma]
    min_clips,          \* class attribute
    max_clips,          \* class attribute
    input_per_plane,    \* class attribute (a list is one shared object)
    output_per_plane,   \* class attribute
    args,               \* arguments and declaration seen by the last __init__
    raised,             \* outcome of the last __init__ ("none" before any)
    ref_clip,           \* self.ref_clip
    clips,              \* self.clips
    out_format,         \* self.out_format
    _input_per_plane,   \* self._input_per_plane
    self_output_per_plane, \* self.output_per_plane (instance attribute)
    is_single_plane,    \* self.is_single_plane
    strategy,           \* the closure invoke() returned ("none" before)
    task                \* per frame index: the evaluation output(n)

vars == <<options, min_clips, max_clips, input_per_plane, output_per_plane,
          args, raised, ref_clip, clips, out_format, _input_per_plane,
          self_output_per_plane, is_single_plane, strategy, task>>

-----------------------------------------------------------------------------
\* Pixel formats (vs.VideoFormat) the clips are drawn from.

Format(st, bps, np, sw, sh) ==
    [sample_type |-> st, bits_per_sample |-> bps, num_planes |-> np,
     subsampling_w |-> sw, subsampling_h |-> sh]

GRAY8 == Format("INTEGER", 8, 1, 0, 0)
GRAYS == Format("FLOAT", 32, 1, 0, 0)
YUV420P8 == Format("INTEGER", 8, 3, 1, 1)
YUV444PS == Format("FLOAT", 32, 3, 0, 0)

Formats == {GRAY8, GRAYS, YUV420P8, YUV444PS}

NoFormat == Format("INTEGER", 0, 0, 0, 0)

Zeros(n) == [i \in 1..n |-> 0]

\* A clip as the host hands it over: no filter applied yet.
Clip(fmt) == [format |-> fmt, shift |-> Zeros(fmt.num_planes)]

NoClip == Clip(NoFormat)

Subsampled(fmt) == fmt.subsampling_w # 0 \/ fmt.subsampling_h # 0

-----------------------------------------------------------------------------
\* PyPluginOptions

\* bps = 32 if self.float_processing is True else self.float_processing
Bps(float_processing) == IF float_processing = 1 THEN 32 ELSE float_processing

\* clip.resize.Point(format=fmt.replace(sample_type=FLOAT, bits_per_sample=bps))
ResizePoint(clip, bps) ==
    [clip EXCEPT !.format = [clip.format EXCEPT !.sample_type = "FLOAT",
                                                !.bits_per_sample = bps]]

\* clip.std.Expr(expr): expression i applies to plane i-1, the last one to all
\* remaining planes; expr[i] is the offset (in halves) the expression adds,
\* 0 for the empty expression (copy), 1 for 'x 0.5 +'.
Expr(clip, expr) ==
    [clip EXCEPT !.shift =
        [i \in 1..clip.format.num_planes |->
            clip.shift[i] + (IF i <= Len(expr) THEN expr[i] ELSE expr[Len(expr)])]]

\* lines 53-54: the ValueError of line 55 is raised
ShiftRaises(opts, fmt) ==
    /\ opts.shift_chroma
    /\ fmt.sample_type # "FLOAT"
    /\ opts.float_processing = 0

\* norm_clip with the offset applied to every plane of every clip
norm_clip_ShiftAllPlanes(opts, clip) ==
    LET fmt == clip.format
        bps == Bps(opts.float_processing)
        c1 == IF /\ opts.float_processing # 0
                 /\ (fmt.sample_type # "FLOAT" \/ fmt.bits_per_sample # bps)
              THEN ResizePoint(clip, bps) ELSE clip
        c2 == IF opts.shift_chroma THEN Expr(c1, <<1>>) ELSE c1
    IN  [raises |-> ShiftRaises(opts, fmt), clip |-> c2]

\* lines 38-62: the clip returned, and whether the ValueError is raised instead
norm_clip(opts, clip) ==
    LET fmt == clip.format
        bps == Bps(opts.float_processing)
        c1 == IF /\ opts.float_processing # 0
                 /\ (fmt.sample_type # "FLOAT" \/ fmt.bits_per_sample # bps)
              THEN ResizePoint(clip, bps) ELSE clip
        c2 == IF opts.shift_chroma /\ fmt.num_planes = 3
              THEN Expr(c1, <<0, 1>>) ELSE c1
    IN  [raises |-> ShiftRaises(opts, fmt), clip |-> c2]

-----------------------------------------------------------------------------
\* PyPlugin.__init__

Bool(b) == [is_list |-> FALSE, val |-> <<b>>]
List(s) == [is_list |-> TRUE, val |-> s]

RECURSIVE Append_n(_, _)
\* for _ in range(k): l.append(l[-1])
Append_n(l, k) == IF k <= 0 THEN l ELSE Append_n(Append(l, l[Len(l)]), k - 1)

\* lines 146-154: the list self._input_per_plane ends up bound to
Broadcast(decl, n_clips) == Append_n(decl.val, n_clips - Len(decl.val))

\* lines 146-152: a declared list is the class attribute's own object and
\* is appended to in place; a bare bool is wrapped in a fresh list.
ClassListAfter(decl, n_clips) ==
    IF decl.is_list THEN List(Broadcast(decl, n_clips)) ELSE decl

\* the declared output_per_plane kept whatever the reference format
ForceOutputPerPlane_Never(opp, fmt) == opp

\* lines 156-157
ForceOutputPerPlane(opp, fmt) == IF fmt.num_planes = 1 THEN TRUE ELSE opp

\* lines 159-162
IsSinglePlane(all_clips) ==
    [i \in 1..Len(all_clips) |-> all_clips[i].format.num_planes = 1]

\* the bounds compared with the number of auxiliary clips alone
CountRaises_AuxOnly(n_clips, minc, maxc) ==
    (n_clips - 1) < minc \/ (maxc > 0 /\ (n_clips - 1) > maxc)

\* line 164
CountRaises(n_clips, minc, maxc) ==
    n_clips < minc \/ (maxc > 0 /\ n_clips > maxc)

\* the check of line 170 left out
OutputSubsampledRaises_Never(opp, fmt) == FALSE

\* line 170 (ref_clip.format is the format of the clip as passed)
OutputSubsampledRaises(opp, fmt) == ~opp /\ Subsampled(fmt)

Min(a, b) == IF a < b THEN a ELSE b

\* lines 175-181: zip stops at the shorter of the clips and the flags
InputSubsampledRaises(all_clips, ipp) ==
    \E i \in 1..Min(Len(all_clips), Len(ipp)) :
        ~ipp[i] /\ Subsampled(all_clips[i].format)

\* output(n) before the host has asked for frame n
IdleTask ==
    [pc |-> "idle", fetches |-> 0, copies |-> 0, stacked |-> <<>>,
     calls |-> <<>>, result |-> <<>>]

\* line 135
NormAll(opts, cs) == [i \in 1..Len(cs) |-> norm_clip(opts, cs[i])]

\* __init__(ref, aux): every assignment up to the first raise.  The model
\* follows one plugin object at a time: a further construction replaces the
\* object followed, and is taken only while invoke() has not been called on
\* it (what __init__ does depends on the class attributes alone, which
\* neither invoke() nor a frame evaluation changes), and only as the first
\* construction or after one that changed the class's list (after any other
\* one the class is as it was before it, so the same objects are reached).
Construct(ref, aux) ==
    LET nref == norm_clip(options, ref)
        naux == NormAll(options, aux)
        decl == input_per_plane
        n_clips == 1 + Len(aux)
        all_clips == <<nref.clip>> \o [i \in 1..Len(aux) |-> naux[i].clip]
        ipp == Broadcast(decl, n_clips)
        opp == ForceOutputPerPlane(output_per_plane, ref.format)
        early == nref.raises \/ \E i \in 1..Len(aux) : naux[i].raises
    IN  /\ strategy = "none"
        /\ raised = "none" \/ input_per_plane # args.input_per_plane
        /\ args' = [ref_clip |-> ref, clips |-> aux, input_per_plane |-> decl,
                    output_per_plane |-> output_per_plane]
        /\ out_format' = ref.format
        /\ strategy' = "none"
        /\ task' = [n \in 0..(MaxFrames - 1) |-> IdleTask]
        /\ UNCHANGED <<options, min_clips, max_clips, output_per_plane>>
        /\ IF early
           THEN /\ raised' = "ValueError_shift_chroma"
                /\ ref_clip' = IF nref.raises THEN NoClip ELSE nref.clip
                /\ clips' = <<>>
                /\ _input_per_plane' = <<>>
                /\ self_output_per_plane' = output_per_plane
                /\ is_single_plane' = <<>>
                /\ UNCHANGED input_per_plane
           ELSE /\ ref_clip' = nref.clip
                /\ clips' = [i \in 1..Len(aux) |-> naux[i].clip]
                /\ input_per_plane' = ClassListAfter(decl, n_clips)
                /\ _input_per_plane' = ipp
                /\ self_output_per_plane' = opp
                /\ is_single_plane' = IsSinglePlane(all_clips)
                /\ raised' =
                     IF CountRaises(n_clips, min_clips, max_clips)
                     THEN "ValueError_clip_count"
                     ELSE IF OutputSubsampledRaises(opp, ref.format)
                     THEN "ValueError_output_subsampled"
                     ELSE IF InputSubsampledRaises(all_clips, ipp)
                     THEN "ValueError_input_subsampled"
                     ELSE "ok"

-----------------------------------------------------------------------------
\* PyPlugin.invoke

\* lines 190, 191, 213, 236, 248: which of the six closures is returned
SelectStrategy(opp, has_clips, ipp0, ref_planes) ==
    IF opp
    THEN IF has_clips THEN "per_plane_clips"
         ELSE IF ipp0 THEN "per_plane_ref" ELSE "per_plane_ref_stacked"
    ELSE IF has_clips THEN "merged_clips"
         ELSE IF ref_planes = 1 THEN "merged_single_plane" ELSE "merged_frame"

PerPlaneStrategies == {"per_plane_clips", "per_plane_ref", "per_plane_ref_stacked"}
MergedStrategies == {"merged_clips", "merged_single_plane", "merged_frame"}

Invoke ==
    /\ raised = "ok"
    /\ strategy = "none"
    /\ strategy' = SelectStrategy(self_output_per_plane, clips # <<>>,
                                  _input_per_plane[1], ref_clip.format.num_planes)
    /\ UNCHANGED <<options, min_clips, max_clips, input_per_plane,
                   output_per_plane, args, raised, ref_clip, clips, out_format,
                   _input_per_plane, self_output_per_plane, is_single_plane, task>>

-----------------------------------------------------------------------------
\* Frames and the views of them handed to process().
\*   kind "plane": one memoryview (frame[p]); "list": a list of memoryviews;
\*   "frame": the vs.VideoFrame itself.
\*   buf "in": a frame the host delivered for stream `clip` at index n;
\*   buf "out": the copy of the reference frame made by the evaluation of n.

View(kind, buf, idx, n, planes) ==
    [kind |-> kind, buf |-> buf, clip |-> idx, n |-> n, planes |-> planes]

AllClips == <<ref_clip>> \o clips

NumPlanes(idx) == AllClips[idx + 1].format.num_planes

PlaneSeq(np) == [i \in 1..np |-> i - 1]

\* frame[p] raises IndexError unless the frame has a plane p
PlaneExists(idx, p) == p < NumPlanes(idx)

GetPlane(idx, n, p) == View("plane", "in", idx, n, <<p>>)

Frame(idx, n) == View("frame", "in", idx, n, PlaneSeq(NumPlanes(idx)))

\* fout = frame.copy()
Fout(n) == View("frame", "out", 0, n, PlaneSeq(NumPlanes(0)))

\* fout[p]
FoutPlane(n, p) == View("plane", "out", 0, n, <<p>>)

\* line 188
_stack_frame(idx, n) ==
    IF is_single_plane[idx + 1] THEN GetPlane(idx, n, 0)
    ELSE View("list", "in", idx, n, <<0, 1, 2>>)

\* line 188: the plane reads of _stack_frame that do not exist
StackRaises(idx) ==
    IF is_single_plane[idx + 1] THEN ~PlaneExists(idx, 0) ELSE ~PlaneExists(idx, 2)

\* self.process(f, src, dst, plane, n); src is a list (is_list) or one object
Call(f, is_list, items, dst, plane, n) ==
    [f |-> f, src |-> [is_list |-> is_list, items |-> items], dst |-> dst,
     plane |-> plane, n |-> n]

Streams == PlaneSeq(1 + Len(clips))

NotPerPlane(idx) == ~_input_per_plane[idx + 1]

\* lines 204-207
InputsData(n, p) ==
    [i \in 1..Len(Streams) |->
        IF _input_per_plane[i] THEN GetPlane(i - 1, n, p) ELSE _stack_frame(i - 1, n)]

\* lines 204-207: some frame[p] of the comprehension raises IndexError
InputsDataRaises(p) ==
    \E i \in 1..Len(Streams) : _input_per_plane[i] /\ ~PlaneExists(i - 1, p)

\* the inputs of the merged call chosen by each stream's per-plane flag
SrcArrays_ByFlag(n) ==
    [i \in 1..Len(Streams) |->
        IF _input_per_plane[i] THEN Frame(i - 1, n) ELSE _stack_frame(i - 1, n)]

\* line 242
SrcArrays(n) == [i \in 1..Len(Streams) |-> _stack_frame(i - 1, n)]

\* The outcome of a closure body once its await has returned the frames.
Outcome(stacked, calls, ok, n) ==
    [pc |-> IF ok THEN "done" ELSE "IndexError", copies |-> 1,
     stacked |-> stacked, calls |-> calls,
     result |-> IF ok THEN <<Fout(n)>> ELSE <<>>]

\* lines 195-211
OutputPerPlaneClips(n) ==
    LET np == NumPlanes(0)
        stacked == SelectSeq(Streams, NotPerPlane)
        stack_ok == \A i \in 1..Len(stacked) : ~StackRaises(stacked[i])
        good == IF stack_ok
                THEN Cardinality({p \in 0..(np - 1) :
                                     \A q \in 0..p : ~InputsDataRaises(q)})
                ELSE 0
    IN  Outcome(stacked,
                [k \in 1..good |->
                    Call(Fout(n), TRUE, InputsData(n, k - 1), FoutPlane(n, k - 1),
                         k - 1, n)],
                stack_ok /\ good = np, n)

\* lines 217-222
OutputPerPlaneRef(n) ==
    Outcome(<<>>,
            [k \in 1..NumPlanes(0) |->
                Call(Fout(n), FALSE, <<GetPlane(0, n, k - 1)>>, FoutPlane(n, k - 1),
                     k - 1, n)],
            TRUE, n)

\* lines 227-234
OutputPerPlaneRefStacked(n) ==
    Outcome(<<0>>,
            IF StackRaises(0) THEN <<>>
            ELSE [k \in 1..NumPlanes(0) |->
                    Call(Fout(n), FALSE, <<_stack_frame(0, n)>>, FoutPlane(n, k - 1),
                         k - 1, n)],
            ~StackRaises(0), n)

\* lines 240-246
OutputMergedClips(n) ==
    LET stack_ok == \A i \in 1..Len(Streams) : ~StackRaises(Streams[i])
    IN  Outcome(Streams,
                IF stack_ok
                THEN <<Call(Fout(n), TRUE, SrcArrays(n), Fout(n), None, n)>>
                ELSE <<>>,
                stack_ok, n)

\* lines 251-256
OutputMergedSinglePlane(n) ==
    Outcome(<<>>,
            <<Call(Fout(n), FALSE, <<GetPlane(0, n, 0)>>, FoutPlane(n, 0), 0, n)>>,
            TRUE, n)

\* lines 260-265
OutputMergedFrame(n) ==
    Outcome(<<>>,
            <<Call(Fout(n), FALSE, <<Frame(0, n)>>, Fout(n), None, n)>>,
            TRUE, n)

\* the body of the closure `output` that invoke() selected
Output(n) ==
    CASE strategy = "per_plane_clips" -> OutputPerPlaneClips(n)
      [] strategy = "per_plane_ref" -> OutputPerPlaneRef(n)
      [] strategy = "per_plane_ref_stacked" -> OutputPerPlaneRefStacked(n)
      [] strategy = "merged_clips" -> OutputMergedClips(n)
      [] strategy = "merged_single_plane" -> OutputMergedSinglePlane(n)
      [] OTHER -> OutputMergedFrame(n)

Unchanged_session ==
    UNCHANGED <<options, min_clips, max_clips, input_per_plane, output_per_plane,
                args, raised, ref_clip, clips, out_format, _input_per_plane,
                self_output_per_plane, is_single_plane, strategy>>

\* The host asks for frame n: output(n) runs up to its await, which issues
\* one get_frame / get_frames for index n.
Request(n) ==
    /\ strategy # "none"
    /\ task[n].pc = "idle"
    /\ task' = [task EXCEPT ![n].pc = "await", ![n].fetches = @ + 1]
    /\ Unchanged_session

\* The fetch of index n fails: the await raises and output(n) ends there.
FetchFails(n) ==
    /\ task[n].pc = "await"
    /\ task' = [task EXCEPT ![n].pc = "FetchError"]
    /\ Unchanged_session

\* All frames of index n are delivered: output(n) resumes and runs to its
\* end without suspending again.
FetchResolves(n) ==
    /\ task[n].pc = "await"
    /\ task' = [task EXCEPT ![n] = [fetches |-> task[n].fetches] @@ Output(n)]
    /\ Unchanged_session

-----------------------------------------------------------------------------

\* The options and the (min_clips, max_clips) a plugin class is declared with.
Opt(fp, sc) == [float_processing |-> fp, shift_chroma |-> sc]

ClassSettings ==
    {<<Opt(0, FALSE), 1, -1>>, <<Opt(0, FALSE), 1, 0>>, <<Opt(0, FALSE), 2, 2>>,
     <<Opt(0, FALSE), 1, 1>>,
     <<Opt(0, TRUE), 1, -1>>, <<Opt(0, TRUE), 2, 2>>,
     <<Opt(1, TRUE), 1, -1>>, <<Opt(16, TRUE), 1, -1>>, <<Opt(16, FALSE), 1, -1>>}

BoolSeqs(k) == [1..k -> BOOLEAN]

Declarations ==
    {Bool(b) : b \in BOOLEAN} \cup
    UNION {{List(s) : s \in BoolSeqs(k)} : k \in 1..MaxDecl}

AuxLists == UNION {[1..k -> {Clip(f) : f \in Formats}] : k \in 0..MaxAux}

Init ==
    /\ \E c \in ClassSettings :
          options = c[1] /\ min_clips = c[2] /\ max_clips = c[3]
    /\ input_per_plane \in Declarations
    /\ output_per_plane \in BOOLEAN
    /\ args = [ref_clip |-> NoClip, clips |-> <<>>,
               input_per_plane |-> input_per_plane,
               output_per_plane |-> output_per_plane]
    /\ raised = "none"
    /\ ref_clip = NoClip
    /\ clips = <<>>
    /\ out_format = NoFormat
    /\ _input_per_plane = <<>>
    /\ self_output_per_plane = output_per_plane
    /\ is_single_plane = <<>>
    /\ strategy = "none"
    /\ task = [n \in 0..(MaxFrames - 1) |-> IdleTask]

Next ==
    \/ \E f \in Formats, aux \in AuxLists : Construct(Clip(f), aux)
    \/ Invoke
    \/ \E n \in 0..(MaxFrames - 1) : Request(n)
    \/ \E n \in 0..(MaxFrames - 1) : FetchFails(n)
    \/ \E n \in 0..(MaxFrames - 1) : FetchResolves(n)

Spec == Init /\ [][Next]_vars

-----------------------------------------------------------------------------
\* Properties.  What the last __init__ was given: its reference clip, its k
\* auxiliary clips, and the class declaration it read.

ArgClips == <<args.ref_clip>> \o args.clips

NumAux == Len(args.clips)

NumStreams == 1 + NumAux

\* the last __init__ got past norm_clip (lines 133-135)
PastNorm == raised \notin {"none", "ValueError_shift_chroma"}

\* ... and past the stream-count check (line 164)
PastCount == PastNorm /\ raised # "ValueError_clip_count"

FrameIndices == 0..(MaxFrames - 1)

\* the fetch of index n succeeded and output(n) has run
Resumed(n) == task[n].pc \in {"done", "IndexError"}

\* C1 as stated: with norm_clip raising nothing, __init__ raises the
\* stream-count error exactly when the number k of auxiliary clips is outside
\* [min_clips, max_clips], max_clips = -1 meaning no upper bound.
C1_AuxCountBound ==
    PastNorm =>
        ((raised = "ValueError_clip_count") <=>
            ~(min_clips <= NumAux /\ (max_clips = -1 \/ NumAux <= max_clips)))

\* C1 amended: with norm_clip raising nothing, __init__ raises the
\* stream-count error exactly when the number of streams 1 + k, the reference
\* included, is below min_clips or above a positive max_clips; a max_clips
\* that is not positive is no upper bound.
C1_StreamCountBound ==
    PastNorm =>
        ((raised = "ValueError_clip_count") <=>
            ~(min_clips <= NumStreams /\ (max_clips <= 0 \/ NumStreams <= max_clips)))

\* C1 witness: a construction with no auxiliary clip succeeds under
\* min_clips = 1.
C1_Witness ==
    /\ raised = "ok"
    /\ NumAux = 0
    /\ min_clips = 1

\* C2 as stated, granting that the stream count is in range and norm_clip
\* raised nothing: for a chroma-subsampled reference, output_per_plane=false
\* fails with the subsampling error of the output and output_per_plane=true
\* succeeds.
C2_SubsampledOutput ==
    (PastCount /\ Subsampled(args.ref_clip.format)) =>
        IF args.output_per_plane
        THEN raised = "ok"
        ELSE raised = "ValueError_output_subsampled"

\* C2 amended: for a chroma-subsampled reference, with the stream count in
\* range and norm_clip raising nothing, output_per_plane=false fails with the
\* subsampling error of the output; output_per_plane=true succeeds exactly
\* when every chroma-subsampled stream, the reference included, has a true
\* per-plane input flag, and fails with the subsampling error of the inputs
\* otherwise.  Every object constructed with merged output, and so every
\* merged strategy, has a reference that is not subsampled.
C2_SubsampledOutputAmended ==
    /\ (PastCount /\ Subsampled(args.ref_clip.format)) =>
          IF args.output_per_plane
          THEN /\ raised \in {"ok", "ValueError_input_subsampled"}
               /\ (raised = "ok") <=>
                      \A i \in 1..NumStreams :
                          Subsampled(ArgClips[i].format) => _input_per_plane[i]
          ELSE raised = "ValueError_output_subsampled"
    /\ (raised = "ok" /\ ~self_output_per_plane) => ~Subsampled(out_format)
    /\ strategy \in MergedStrategies => ~Subsampled(ref_clip.format)

\* C2 witness: a subsampled reference with per-plane output is accepted.
C2_Witness ==
    /\ raised = "ok"
    /\ Subsampled(args.ref_clip.format)
    /\ args.output_per_plane
    /\ self_output_per_plane

\* C3: after __init__, _input_per_plane has exactly one entry per stream; a
\* single declared flag fills all of them, and a declared list shorter than
\* the stream count keeps its entries and is padded with its last one.
C3_BroadcastLength ==
    PastNorm =>
        LET decl == args.input_per_plane
            k == Len(decl.val)
        IN  /\ Len(_input_per_plane) = NumStreams
            /\ ~decl.is_list =>
                  \A i \in 1..Len(_input_per_plane) : _input_per_plane[i] = decl.val[1]
            /\ (decl.is_list /\ k < NumStreams) =>
                  \A i \in 1..Len(_input_per_plane) :
                      _input_per_plane[i] = decl.val[IF i <= k THEN i ELSE k]

\* the items process() must get for plane p under per-plane output: plane p
\* of each per-plane stream, the stack of each other stream
ExpectedItem(i, n, p) ==
    IF _input_per_plane[i]
    THEN View("plane", "in", i - 1, n, <<p>>)
    ELSE IF NumPlanes(i - 1) = 1
         THEN View("plane", "in", i - 1, n, <<0>>)
         ELSE View("list", "in", i - 1, n, <<0, 1, 2>>)

\* C4: under per-plane output, an evaluation whose fetch succeeded has
\* fetched once, copied the reference frame once, stacked each stream that
\* is not per-plane once, and called process once per plane of the output,
\* in ascending order, with that plane of the copy as destination and the
\* inputs of that plane in stream order.
C4_PerPlaneDispatch ==
    \A n \in FrameIndices :
        (strategy \in PerPlaneStrategies /\ Resumed(n)) =>
            LET t == task[n]
                np == NumPlanes(0)
            IN  /\ t.fetches = 1
                /\ t.copies = 1
                /\ t.stacked = SelectSeq(Streams, NotPerPlane)
                /\ Len(t.calls) = np
                /\ \A k \in 1..Len(t.calls) :
                      /\ t.calls[k].plane = k - 1
                      /\ t.calls[k].n = n
                      /\ t.calls[k].dst = View("plane", "out", 0, n, <<k - 1>>)
                      /\ Len(t.calls[k].src.items) = Len(Streams)
                      /\ \A i \in 1..Len(t.calls[k].src.items) :
                            t.calls[k].src.items[i] = ExpectedItem(i, n, k - 1)

\* the one process() call of an evaluation under merged output
MergedCall(n) == task[n].calls[1]

\* C5 as stated: under merged output, an evaluation whose fetch succeeded
\* calls process once, with the whole copy and plane None, and a stream is
\* stacked only when its per-plane flag is false.
C5_MergedByFlag ==
    \A n \in FrameIndices :
        (strategy \in MergedStrategies /\ Resumed(n)) =>
            /\ Len(task[n].calls) = 1
            /\ MergedCall(n).plane = None
            /\ MergedCall(n).dst = View("frame", "out", 0, n, PlaneSeq(NumPlanes(0)))
            /\ \A j \in 1..Len(task[n].stacked) :
                  ~_input_per_plane[task[n].stacked[j] + 1]

\* C5 amended: under merged output, an evaluation whose fetch succeeded
\* calls process once, with the whole copy and plane None; with auxiliary
\* clips the input list holds, in stream order, the stack of every stream
\* whatever its per-plane flag (plane 0 of a one-plane stream, the list of
\* planes 0, 1, 2 of any other); with none the input is the reference frame
\* itself, neither split nor stacked.
C5_MergedStacksAll ==
    \A n \in FrameIndices :
        (strategy \in MergedStrategies /\ Resumed(n)) =>
            /\ task[n].pc = "done"
            /\ task[n].fetches = 1
            /\ Len(task[n].calls) = 1
            /\ MergedCall(n).plane = None
            /\ MergedCall(n).n = n
            /\ MergedCall(n).dst = View("frame", "out", 0, n, PlaneSeq(NumPlanes(0)))
            /\ IF clips # <<>>
               THEN /\ MergedCall(n).src.is_list
                    /\ task[n].stacked = Streams
                    /\ Len(MergedCall(n).src.items) = Len(Streams)
                    /\ \A i \in 1..Len(MergedCall(n).src.items) :
                          MergedCall(n).src.items[i] =
                              IF NumPlanes(i - 1) = 1
                              THEN View("plane", "in", i - 1, n, <<0>>)
                              ELSE View("list", "in", i - 1, n, <<0, 1, 2>>)
               ELSE /\ ~MergedCall(n).src.is_list
                    /\ task[n].stacked = <<>>
                    /\ MergedCall(n).src.items =
                          <<View("frame", "in", 0, n, PlaneSeq(NumPlanes(0)))>>

\* C5 witness: a merged evaluation with auxiliary clips has finished although
\* the streams are declared per-plane.
C5_Witness ==
    /\ strategy = "merged_clips"
    /\ task[0].pc = "done"
    /\ _input_per_plane[1]
    /\ _input_per_plane[2]

\* C6: with shift_chroma, __init__ raises the ValueError of norm_clip exactly
\* when some stream has integer samples while float_processing is off; when
\* it does not, every stream is float, a three-plane stream has 0.5 added to
\* planes 1 and 2 and nothing to plane 0, and a one-plane stream has nothing
\* added (and is the clip passed when float_processing is off).
C6_ShiftChroma ==
    (options.shift_chroma /\ raised # "none") =>
        /\ (raised = "ValueError_shift_chroma") <=>
              \E i \in 1..NumStreams :
                  /\ ArgClips[i].format.sample_type = "INTEGER"
                  /\ options.float_processing = 0
        /\ raised # "ValueError_shift_chroma" =>
              \A i \in 1..NumStreams :
                  /\ AllClips[i].format.sample_type = "FLOAT"
                  /\ ArgClips[i].format.num_planes = 3 => AllClips[i].shift = <<0, 1, 1>>
                  /\ ArgClips[i].format.num_planes = 1 =>
                        /\ AllClips[i].shift = <<0>>
                        /\ options.float_processing = 0 => AllClips[i] = ArgClips[i]

\* C6 witness: float_processing on, shift_chroma on, an 8-bit three-plane
\* reference and a one-plane auxiliary clip: the construction gets past
\* norm_clip with the chroma planes of the reference shifted.
C6_Witness ==
    /\ options.shift_chroma
    /\ options.float_processing # 0
    /\ PastNorm
    /\ args.ref_clip.format = YUV420P8
    /\ ref_clip.shift = <<0, 1, 1>>
    /\ NumAux = 1
    /\ args.clips[1].format.num_planes = 1

\* C7: no construction changes the class's input_per_plane or
\* output_per_plane.
C7_ClassUnchanged ==
    [][input_per_plane' = input_per_plane /\ output_per_plane' = output_per_plane]_vars

\* C8: an evaluation whose fetch failed has called process never and returned
\* nothing; every evaluation whose fetch succeeded, whatever became of the
\* others, has returned the copy it made of its own reference frame and has
\* written to planes of that copy alone.
C8_Isolation ==
    \A n \in FrameIndices :
        /\ task[n].pc = "FetchError" => (task[n].calls = <<>> /\ task[n].result = <<>>)
        /\ Resumed(n) =>
              /\ task[n].result = <<View("frame", "out", 0, n, PlaneSeq(NumPlanes(0)))>>
              /\ \A k \in 1..Len(task[n].calls) :
                    /\ task[n].calls[k].dst.buf = "out"
                    /\ task[n].calls[k].dst.n = n

\* C9: the merged single-plane closure is never the one selected; a merged
\* strategy is selected only for a three-plane reference, and a one-plane
\* reference always gets a per-plane strategy.
C9_MergedOnlyThreePlanes ==
    /\ strategy # "merged_single_plane"
    /\ strategy \in MergedStrategies => ref_clip.format.num_planes = 3
    /\ (strategy # "none" /\ ref_clip.format.num_planes = 1) =>
          strategy \in PerPlaneStrategies

\* C9 witness: a class declaring merged output, constructed on a one-plane
\* reference, has been given a per-plane strategy.
C9_Witness ==
    /\ ~args.output_per_plane
    /\ ref_clip.format.num_planes = 1
    /\ strategy \in PerPlaneStrategies

\* C10: no evaluation reads a plane that its frame does not have.
C10_PlanesExist ==
    \A n \in FrameIndices : task[n].pc # "IndexError"

====
